---- MODULE Spec2Model ----
(***************************************************************************)
(* Model of pdf_to_word_clean.py: the block extractor                      *)
(* (extract_text_without_footnotes), the text normalizer (clean_text),     *)
(* the document sink (create_word_document) and the driver (main).         *)
(*                                                                         *)
(* A Python str is a sequence of one-character strings.  A regular         *)
(* expression is modelled by a matcher that returns, for a start index,    *)
(* the index just after the match (0 when the pattern does not match       *)
(* there); re.sub is the leftmost, non-overlapping scan over such a        *)
(* matcher.                                                                *)
(***************************************************************************)
EXTENDS Integers, Sequences, FiniteSets, TLC

VARIABLES
    pc,               \* position of the run inside main and its callees
    pdf_exists,       \* environment: pdf_path.exists()
    doc,              \* the page source: "unopened", "open", "closed", "failed"
    items_read,       \* pages, blocks, lines and spans fetched from doc so far
    page_height,      \* extract_text_without_footnotes: page_height
    block_y_top,      \* extract_text_without_footnotes: block_y_top
    line,             \* the spans of the current line iterated so far
    line_text,        \* extract_text_without_footnotes: line_text
    block_line_texts, \* extract_text_without_footnotes: block_line_texts
    full_text,        \* extract_text_without_footnotes: full_text
    raw_text,         \* main: raw_text, <<>> while unbound, <<s>> once bound
    text,             \* clean_text: text
    clean,            \* main: clean, <<>> while unbound, <<s>> once bound
    paragraphs,       \* create_word_document: paragraphs still to iterate
    docx,             \* create_word_document: paragraphs added to the Document
    saves             \* how many times doc.save(output_path) has run

vars == <<pc, pdf_exists, doc, items_read,
          page_height, block_y_top, line, line_text, block_line_texts,
          full_text, raw_text, text, clean, paragraphs, docx, saves>>

-----------------------------------------------------------------------------
(* Bounds of the model.                                                    *)

\* The pages, blocks, lines and spans of the document, counted together.
MaxItems == 7

\* The pieces an input of clean_text is put together from.
MaxPieces == 3

-----------------------------------------------------------------------------
(* Characters and character classes.  A character outside ASCII is written *)
(* as an ASCII token that stands for the one character: "a'" is a-acute,   *)
(* "o:" is o-umlaut, "o''" is o-double-acute (likewise e, i, u and the     *)
(* capitals), and "^3" is SUPERSCRIPT THREE.                               *)

NL == "\n"

superscript_digits == <<"^0", "^1", "^2", "^3", "^4", "^5", "^6", "^7", "^8", "^9">>

\* \d of the re module on str patterns: decimal digits (category Nd).
DecimalDigits == {"0", "1", "2", "3", "4", "5", "6", "7", "8", "9"}

\* \s of the re module and the characters str.strip() removes.
Whitespace == {" ", NL, "\t"}

LowerLetters ==
    <<"a", "b", "c", "d", "e", "f", "g", "h", "i", "j", "k", "l", "m",
      "n", "o", "p", "q", "r", "s", "t", "u", "v", "w", "x", "y", "z",
      "a'", "e'", "i'", "o'", "o:", "o''", "u'", "u:", "u''">>

UpperLetters ==
    <<"A", "B", "C", "D", "E", "F", "G", "H", "I", "J", "K", "L", "M",
      "N", "O", "P", "Q", "R", "S", "T", "U", "V", "W", "X", "Y", "Z",
      "A'", "E'", "I'", "O'", "O:", "O''", "U'", "U:", "U''">>

Range(f) == {f[k] : k \in DOMAIN f}

\* Case folding as re.IGNORECASE compares characters.
FoldMap ==
    [c \in Range(UpperLetters) |->
        LowerLetters[CHOOSE k \in DOMAIN UpperLetters : UpperLetters[k] = c]]

Fold(c) == IF c \in DOMAIN FoldMap THEN FoldMap[c] ELSE c

\* The class of the lowercase letters a-z and the nine accented
\* lowercase letters (rules 4 and 5), as written.
AlphabetClass == Range(LowerLetters)

\* The class [IVX], as written.
RomanClass == {"I", "V", "X"}

\* The class [.,;:!?)] of rule 5's lookahead.
ClosingPunct == {".", ",", ";", ":", "!", "?", ")"}

\* A class as re.IGNORECASE reads it: its characters, case-folded.
FoldClass(class) == {Fold(d) : d \in class}

AlphabetClassI == FoldClass(AlphabetClass)

RomanClassI == FoldClass(RomanClass)

\* Membership of c in a case-folded class under re.IGNORECASE.
InClassI(c, classI) == Fold(c) \in classI

\* str.isdigit(): non-empty and every character a digit; the superscript
\* digits count as digits for str.isdigit() although \d does not match them.
IsDigit(s) ==
    /\ Len(s) > 0
    /\ \A k \in 1..Len(s) : s[k] \in DecimalDigits \cup Range(superscript_digits)

\* Fault: str.lstrip() in place of str.strip().
Strip_LeftOnly(s) ==
    IF \A k \in 1..Len(s) : s[k] \in Whitespace
    THEN <<>>
    ELSE SubSeq(s, CHOOSE k \in 1..Len(s) :
                       /\ s[k] \notin Whitespace
                       /\ \A m \in 1..(k - 1) : s[m] \in Whitespace,
                Len(s))

\* str.strip()
Strip(s) ==
    IF \A k \in 1..Len(s) : s[k] \in Whitespace
    THEN <<>>
    ELSE LET a == CHOOSE k \in 1..Len(s) :
                      /\ s[k] \notin Whitespace
                      /\ \A m \in 1..(k - 1) : s[m] \in Whitespace
             b == CHOOSE k \in 1..Len(s) :
                      /\ s[k] \notin Whitespace
                      /\ \A m \in (k + 1)..Len(s) : s[m] \in Whitespace
         IN  SubSeq(s, a, b)

\* str.join(parts) with separator sep
RECURSIVE Join(_, _)
Join(parts, sep) ==
    IF Len(parts) = 0 THEN <<>>
    ELSE IF Len(parts) = 1 THEN parts[1]
    ELSE parts[1] \o sep \o Join(Tail(parts), sep)

-----------------------------------------------------------------------------
(* Regular-expression primitives.                                          *)

\* The character at index i is c (false past the end).
At(s, i, c) == i >= 1 /\ i <= Len(s) /\ s[i] = c

\* Greedy X* for a character class: the first index from i on whose
\* character is outside the class (Len(s) + 1 when there is none).
SkipIn(s, i, class) ==
    CHOOSE j \in i..(Len(s) + 1) :
        /\ \A k \in i..(j - 1) : s[k] \in class
        /\ (j = Len(s) + 1 \/ s[j] \notin class)

\* Greedy X* under re.IGNORECASE.
SkipInI(s, i, classI) ==
    CHOOSE j \in i..(Len(s) + 1) :
        /\ \A k \in i..(j - 1) : InClassI(s[k], classI)
        /\ (j = Len(s) + 1 \/ ~InClassI(s[j], classI))

\* Greedy [^...]* for a negated class.
SkipNotIn(s, i, class) ==
    CHOOSE j \in i..(Len(s) + 1) :
        /\ \A k \in i..(j - 1) : s[k] \notin class
        /\ (j = Len(s) + 1 \/ s[j] \in class)

\* A literal matched under re.IGNORECASE at index i.
MatchLitI(s, i, lit) ==
    /\ i + Len(lit) - 1 <= Len(s)
    /\ \A k \in 1..Len(lit) : Fold(s[i + k - 1]) = Fold(lit[k])

\* The lookahead (?=\n|$): a line break follows, or the text ends here
\* ($ without re.MULTILINE also matches just before a final line break,
\* which the \n alternative already covers).
AtLineEnd(s, i) == i = Len(s) + 1 \/ At(s, i, NL)

-----------------------------------------------------------------------------
(* The patterns of clean_text.  Each matcher returns the index just after  *)
(* the match that starts at i, or 0.                                       *)

\* Fault: the tail without its optional group and lookahead, [^\n.]* alone,
\* which stops at the first period.
NoteTail_ToPeriod(s, j) == SkipNotIn(s, j, {NL, "."})

\* The tail [^\n.]*(?:\.[^\n]*)?(?=\n|$) shared by rules 2 and 3, from
\* index j on: the greedy [^\n.]* stops at a period, a line break or the
\* end; at a period the optional group runs to the end of the line.
NoteTail(s, j) ==
    LET p == SkipNotIn(s, j, {NL, "."})
        q == IF At(s, p, ".") THEN SkipNotIn(s, p + 1, {NL}) ELSE p
    IN  IF AtLineEnd(s, q) THEN q ELSE 0

\* r'Lásd:[^\n.]*(?:\.[^\n]*)?(?=\n|$)', re.IGNORECASE
LasdLit == <<"L", "a'", "s", "d", ":">>

LasdMatch(s, i) ==
    IF MatchLitI(s, i, LasdLit) THEN NoteTail(s, i + Len(LasdLit)) ELSE 0

\* r'(?:Megállapította|Hatályos|Beiktatta|Módosította|Hatályon kívül
\* helyezte):...', re.IGNORECASE: the alternatives in the order written.
AmendmentLits ==
    << <<"M", "e", "g", "a'", "l", "l", "a", "p", "i'", "t", "o", "t", "t", "a", ":">>,
       <<"H", "a", "t", "a'", "l", "y", "o", "s", ":">>,
       <<"B", "e", "i", "k", "t", "a", "t", "t", "a", ":">>,
       <<"M", "o'", "d", "o", "s", "i'", "t", "o", "t", "t", "a", ":">>,
       <<"H", "a", "t", "a'", "l", "y", "o", "n", " ", "k", "i'", "v", "u:", "l", " ",
         "h", "e", "l", "y", "e", "z", "t", "e", ":">> >>

AmendmentMatch(s, i) ==
    IF \E a \in DOMAIN AmendmentLits : MatchLitI(s, i, AmendmentLits[a])
    THEN LET a == CHOOSE a \in DOMAIN AmendmentLits :
                      /\ MatchLitI(s, i, AmendmentLits[a])
                      /\ \A b \in 1..(a - 1) : ~MatchLitI(s, i, AmendmentLits[b])
         IN  NoteTail(s, i + Len(AmendmentLits[a]))
    ELSE 0

\* r'\(\d{4}\.\s*[IVX]+\.\s*\d+-[a-zéáíóöőúüű]+\.\)', re.IGNORECASE
DateCiteMatch(s, i) ==
    IF ~(At(s, i, "(") /\ i + 5 <= Len(s)
         /\ (\A k \in 1..4 : s[i + k] \in DecimalDigits)
         /\ s[i + 5] = ".")
    THEN 0
    ELSE LET p2 == SkipIn(s, i + 6, Whitespace)
             p3 == SkipInI(s, p2, RomanClassI)
         IN  IF p3 = p2 \/ ~At(s, p3, ".") THEN 0
             ELSE LET p4 == SkipIn(s, p3 + 1, Whitespace)
                      p5 == SkipIn(s, p4, DecimalDigits)
                  IN  IF p5 = p4 \/ ~At(s, p5, "-") THEN 0
                      ELSE LET p6 == SkipInI(s, p5 + 1, AlphabetClassI)
                           IN  IF p6 = p5 + 1 \/ ~At(s, p6, ".") \/ ~At(s, p6 + 1, ")")
                               THEN 0
                               ELSE p6 + 2

\* The lookahead (?=\s|[.,;:!?)]|$) of rule 5.
AfterWord(s, i) ==
    \/ i = Len(s) + 1
    \/ (i <= Len(s) /\ s[i] \in Whitespace \cup ClosingPunct)

\* Fault: rule 5 without its lookahead.
FusedDigitsMatch_NoLookahead(s, i) ==
    IF ~(i > 1 /\ i <= Len(s) /\ InClassI(s[i - 1], AlphabetClassI)) THEN 0
    ELSE LET q == SkipIn(s, i, DecimalDigits)
         IN  IF q = i THEN 0 ELSE IF q - i > 3 THEN i + 3 ELSE q

\* r'(?<=[a-záéíóöőúüű])(\d{1,3})(?=\s|[.,;:!?)]|$)', re.IGNORECASE:
\* \d{1,3} is greedy and backtracks from three digits to one.
FusedDigitsMatch(s, i) ==
    IF ~(i > 1 /\ i <= Len(s) /\ InClassI(s[i - 1], AlphabetClassI)) THEN 0
    ELSE LET ok(n) == /\ i + n - 1 <= Len(s)
                      /\ \A k \in 0..(n - 1) : s[i + k] \in DecimalDigits
                      /\ AfterWord(s, i + n)
         IN  IF ok(3) THEN i + 3
             ELSE IF ok(2) THEN i + 2
             ELSE IF ok(1) THEN i + 1
             ELSE 0

\* The tail \s*\n\n of rules 6 and 9 from index p on: \s* takes the whole
\* whitespace run and gives characters back until two line breaks follow.
\* Returns the index of the first of the two line breaks, or 0.
BlankTail(s, p) ==
    LET q == SkipIn(s, p, Whitespace)
        C == {j \in p..(q - 2) : s[j] = NL /\ s[j + 1] = NL}
    IN  IF C = {} THEN 0 ELSE CHOOSE j \in C : \A m \in C : m <= j

\* r'\((\d+)\)\s*\n\n+': after the two line breaks \n+ takes every further one.
ParaNumberMatch(s, i) ==
    IF ~At(s, i, "(") THEN 0
    ELSE LET p == SkipIn(s, i + 1, DecimalDigits)
         IN  IF p = i + 1 \/ ~At(s, p, ")") THEN 0
             ELSE LET j == BlankTail(s, p + 1)
                  IN  IF j = 0 THEN 0 ELSE SkipIn(s, j + 1, {NL})

\* The replacement r'(\1) ' for a match from i: group 1 is the digit run.
ParaNumberRepl(s, i) ==
    SubSeq(s, i, SkipIn(s, i + 1, DecimalDigits)) \o <<" ">>

\* Fault: r'  ' in place of r' +': exactly two spaces become one.
SpacesMatch_Pair(s, i) ==
    IF At(s, i, " ") /\ At(s, i + 1, " ") THEN i + 2 ELSE 0

\* r' +'
SpacesMatch(s, i) ==
    IF At(s, i, " ") THEN SkipIn(s, i, {" "}) ELSE 0

\* r'\n{3,}'
BreaksMatch(s, i) ==
    IF At(s, i, NL) /\ At(s, i + 1, NL) /\ At(s, i + 2, NL)
    THEN SkipIn(s, i, {NL})
    ELSE 0

\* Fault: r'\n\n\n\n' in place of rule 9's pattern, without the \s*.
BlankParaMatch_NoWhitespace(s, i) ==
    IF At(s, i, NL) /\ At(s, i + 1, NL) /\ At(s, i + 2, NL) /\ At(s, i + 3, NL)
    THEN i + 4
    ELSE 0

\* r'\n\n\s*\n\n'
BlankParaMatch(s, i) ==
    IF ~(At(s, i, NL) /\ At(s, i + 1, NL)) THEN 0
    ELSE LET j == BlankTail(s, i + 2)
         IN  IF j = 0 THEN 0 ELSE j + 2

\* The matcher and the replacement of each re.sub call of clean_text.
MatchEnd(rule, s, i) ==
    CASE rule = 2 -> LasdMatch(s, i)
      [] rule = 3 -> AmendmentMatch(s, i)
      [] rule = 4 -> DateCiteMatch(s, i)
      [] rule = 5 -> FusedDigitsMatch(s, i)
      [] rule = 6 -> ParaNumberMatch(s, i)
      [] rule = 7 -> SpacesMatch(s, i)
      [] rule = 8 -> BreaksMatch(s, i)
      [] rule = 9 -> BlankParaMatch(s, i)

Replacement(rule, s, i) ==
    CASE rule \in {2, 3, 4, 5} -> <<>>
      [] rule = 6 -> ParaNumberRepl(s, i)
      [] rule = 7 -> <<" ">>
      [] rule \in {8, 9} -> <<NL, NL>>

\* re.sub from index i on: the leftmost match is replaced and the scan
\* goes on after it; the lookbehind and lookaheads read the original text.
\* (No pattern of clean_text matches the empty string.)
RECURSIVE Scan(_, _, _)
Scan(rule, s, i) ==
    IF i > Len(s) THEN <<>>
    ELSE LET e == MatchEnd(rule, s, i)
         IN  IF e > i
             THEN Replacement(rule, s, i) \o Scan(rule, s, e)
             ELSE <<s[i]>> \o Scan(rule, s, i + 1)

re_sub(rule, s) == Scan(rule, s, 1)

\* text.replace(digit, "") for one character
RemoveChar(s, c) == SelectSeq(s, LAMBDA x : x # c)

\* for digit in superscript_digits: text = text.replace(digit, "")
RECURSIVE RemoveAll(_, _)
RemoveAll(s, chars) ==
    IF Len(chars) = 0 THEN s
    ELSE RemoveAll(RemoveChar(s, Head(chars)), Tail(chars))

\* The statement of clean_text that runs at step n (1..10).
CleanRule(n, s) ==
    IF n = 1 THEN RemoveAll(s, superscript_digits)
    ELSE IF n = 10 THEN Strip(s)
    ELSE re_sub(n, s)

\* clean_text(text): the ten statements in order.
RECURSIVE CleanFrom(_, _)
CleanFrom(n, s) ==
    IF n > 10 THEN s ELSE CleanFrom(n + 1, CleanRule(n, s))

clean_text(s) == CleanFrom(1, s)

-----------------------------------------------------------------------------
(* create_word_document: the pure parts.                                   *)

\* text.split('\n\n') from index i on, cur being the segment under way:
\* separators are found left to right and do not overlap.
RECURSIVE SplitFrom(_, _, _)
SplitFrom(s, i, cur) ==
    IF i > Len(s) THEN <<cur>>
    ELSE IF At(s, i, NL) /\ At(s, i + 1, NL)
         THEN <<cur>> \o SplitFrom(s, i + 2, <<>>)
         ELSE SplitFrom(s, i + 1, Append(cur, s[i]))

Split(s) == SplitFrom(s, 1, <<>>)

\* para.replace('\n', ' '), then re.sub(r' +', ' ', ...).strip()
ParaText(para) ==
    Strip(re_sub(7, [k \in 1..Len(para) |-> IF para[k] = NL THEN " " ELSE para[k]]))

-----------------------------------------------------------------------------
(* extract_text_without_footnotes: the inputs and the pure parts.          *)

\* Page heights the page source yields.  For each of them the products
\* page_height * 0.10 and page_height * 0.85 are exact in binary floating
\* point (10.0 and 85.0, 20.0 and 170.0), so integer arithmetic models them.
PageHeights == {100, 200}

\* Top edges (bbox[1]) of the blocks the page source yields.
BlockTops == {5, 10, 20, 85, 170, 171}

\* Blocks: image blocks carry no "lines" key.
Blocks == [has_lines : BOOLEAN, y : BlockTops]

\* Spans the page source yields: text, font size and style flags.
Spans ==
    { [text |-> <<"1", "2">>, size |-> 7,  flags |-> 0],
      [text |-> <<"1", "2">>, size |-> 8,  flags |-> 0],
      [text |-> <<"1", "2">>, size |-> 10, flags |-> 1],
      [text |-> <<"1", "2">>, size |-> 10, flags |-> 0],
      [text |-> <<" ", "1">>, size |-> 12, flags |-> 2],
      [text |-> <<"a">>,      size |-> 7,  flags |-> 0],
      [text |-> <<"a", " ">>, size |-> 10, flags |-> 1],
      [text |-> <<" ">>,      size |-> 10, flags |-> 0] }

\* page_height * 0.10
HeaderLimit(h) == (h * 10) \div 100

\* page_height * 0.85
FooterLimit(h) == (h * 85) \div 100

\* Fault: the footer test against the page height instead of 85% of it.
InFooter_PageBottom(y, h) == y > h

\* The two `continue` tests on block_y_top.
InHeader(y, h) == y < HeaderLimit(h)

InFooter(y, h) == y > FooterLimit(h)

\* flags & 1
Bit0(flags) == flags % 2 = 1

\* Fault: the digit clause of is_superscript with the threshold 8 for 10.
is_superscript_Below8(span) ==
    \/ span.size < 8
    \/ Bit0(span.flags)
    \/ (IsDigit(Strip(span.text)) /\ span.size < 8)

\* is_superscript
is_superscript(span) ==
    \/ span.size < 8
    \/ Bit0(span.flags)
    \/ (IsDigit(Strip(span.text)) /\ span.size < 10)

\* if is_superscript and text.strip().isdigit(): continue
SkipSpan(span) == is_superscript(span) /\ IsDigit(Strip(span.text))

\* Fault: the page-number test with the length bound 4 for 3.
IsPageNumber_UpTo4(stripped) == IsDigit(stripped) /\ Len(stripped) <= 4

\* if stripped.isdigit() and len(stripped) <= 3: continue
IsPageNumber(stripped) == IsDigit(stripped) /\ Len(stripped) <= 3

-----------------------------------------------------------------------------
(* main and extract_text_without_footnotes: the steps.                     *)

ExtractVars == <<items_read, page_height,
                 block_y_top, line, line_text, block_line_texts, full_text>>

SinkVars == <<paragraphs, docx, saves>>

\* if not pdf_path.exists(): print(...); return
MainCheck ==
    /\ pc = "main"
    /\ pc' = IF pdf_exists THEN "open" ELSE "exit"
    /\ UNCHANGED <<pdf_exists, doc, ExtractVars, raw_text, text, clean, SinkVars>>

\* doc = fitz.open(pdf_path); full_text = []
Open ==
    /\ pc = "open"
    /\ doc' = "open"
    /\ full_text' = <<>>
    /\ pc' = "pages"
    /\ UNCHANGED <<items_read, pdf_exists, page_height, block_y_top, line, line_text, block_line_texts,
                   raw_text, text, clean, SinkVars>>

\* fitz.open raises: the exception leaves main uncaught.
OpenFail ==
    /\ pc = "open"
    /\ doc' = "failed"
    /\ pc' = "raised"
    /\ UNCHANGED <<pdf_exists, ExtractVars, raw_text, text, clean, SinkVars>>

\* for page in doc: page_height = page.rect.height; blocks = page.get_text(...)
NextPage(h) ==
    /\ pc = "pages"
    /\ items_read < MaxItems
    /\ items_read' = items_read + 1
    /\ page_height' = h
    /\ pc' = "blocks"
    /\ UNCHANGED <<pdf_exists, doc, block_y_top, line, line_text, block_line_texts, full_text,
                   raw_text, text, clean, SinkVars>>

\* Fault: the exception of page.get_text swallowed, and the text gathered
\* so far returned to main.
PageFail_Swallowed ==
    /\ pc = "pages"
    /\ items_read < MaxItems
    /\ doc' = "failed"
    /\ raw_text' = <<Join(full_text, <<NL, NL>>)>>
    /\ text' = Join(full_text, <<NL, NL>>)
    /\ pc' = "rule1"
    /\ UNCHANGED <<pdf_exists, ExtractVars, clean, SinkVars>>

\* page.get_text raises while the pages are read: the exception leaves
\* extract_text_without_footnotes and main uncaught.
PageFail ==
    /\ pc = "pages"
    /\ items_read < MaxItems
    /\ doc' = "failed"
    /\ pc' = "raised"
    /\ UNCHANGED <<pdf_exists, ExtractVars, raw_text, text, clean, SinkVars>>

\* The page loop ends: doc.close(); result = "\n\n".join(full_text);
\* return result, which main binds to raw_text and passes to clean_text.
\* The locals of extract_text_without_footnotes end with the call.
EndPages ==
    /\ pc = "pages"
    /\ doc' = "closed"
    /\ raw_text' = <<Join(full_text, <<NL, NL>>)>>
    /\ text' = Join(full_text, <<NL, NL>>)
    /\ pc' = "rule1"
    /\ items_read' = 0
    /\ page_height' = 0 /\ block_y_top' = 0
    /\ line' = <<>> /\ line_text' = <<>> /\ block_line_texts' = <<>>
    /\ full_text' = <<>>
    /\ UNCHANGED <<pdf_exists, clean, SinkVars>>

\* for block in blocks: the three `continue` tests, then block_line_texts = []
NextBlock(block) ==
    /\ pc = "blocks"
    /\ items_read < MaxItems
    /\ items_read' = items_read + 1
    /\ IF ~block.has_lines
       THEN UNCHANGED <<pc, block_y_top, block_line_texts>>
       ELSE /\ block_y_top' = block.y
            /\ IF InHeader(block.y, page_height) \/ InFooter(block.y, page_height)
               THEN UNCHANGED <<pc, block_line_texts>>
               ELSE /\ block_line_texts' = <<>>
                    /\ pc' = "lines"
    /\ UNCHANGED <<pdf_exists, doc, page_height, line, line_text, full_text,
                   raw_text, text, clean, SinkVars>>

\* The block loop of a page ends.
EndBlocks ==
    /\ pc = "blocks"
    /\ pc' = "pages"
    /\ UNCHANGED <<pdf_exists, doc, ExtractVars, raw_text, text, clean, SinkVars>>

\* for line in block["lines"]: line_text = ""
NextLine ==
    /\ pc = "lines"
    /\ items_read < MaxItems
    /\ items_read' = items_read + 1
    /\ line' = <<>>
    /\ line_text' = <<>>
    /\ pc' = "spans"
    /\ UNCHANGED <<pdf_exists, doc, page_height, block_y_top, block_line_texts, full_text,
                   raw_text, text, clean, SinkVars>>

\* The line loop of a block ends:
\* if block_line_texts: full_text.append(' '.join(block_line_texts))
EndLines ==
    /\ pc = "lines"
    /\ full_text' = IF block_line_texts # <<>>
                    THEN Append(full_text, Join(block_line_texts, <<" ">>))
                    ELSE full_text
    /\ pc' = "blocks"
    /\ UNCHANGED <<items_read, pdf_exists, doc, page_height, block_y_top, line, line_text,
                   block_line_texts, raw_text, text, clean, SinkVars>>

\* for span in line["spans"]: skip a superscript number, else line_text += text
NextSpan(span) ==
    /\ pc = "spans"
    /\ items_read < MaxItems
    /\ items_read' = items_read + 1
    /\ line' = Append(line, span)
    /\ line_text' = IF SkipSpan(span) THEN line_text ELSE line_text \o span.text
    /\ UNCHANGED <<pc, pdf_exists, doc, page_height, block_y_top, block_line_texts, full_text,
                   raw_text, text, clean, SinkVars>>

\* The span loop of a line ends: stripped = line_text.strip(); a page
\* number is dropped; a non-empty line is appended to block_line_texts.
EndSpans ==
    /\ pc = "spans"
    /\ LET stripped == Strip(line_text)
       IN  block_line_texts' =
               IF IsPageNumber(stripped) THEN block_line_texts
               ELSE IF stripped # <<>> THEN Append(block_line_texts, stripped)
               ELSE block_line_texts
    /\ pc' = "lines"
    /\ UNCHANGED <<items_read, pdf_exists, doc, page_height, block_y_top, line, line_text,
                   full_text, raw_text, text, clean, SinkVars>>

-----------------------------------------------------------------------------
(* clean_text and create_word_document: the steps.                         *)

RulePc == <<"rule1", "rule2", "rule3", "rule4", "rule5",
            "rule6", "rule7", "rule8", "rule9", "rule10">>

\* The n-th statement of clean_text; the tenth returns, and main binds the
\* result to clean.
CleanStep(n) ==
    /\ pc = RulePc[n]
    /\ text' = CleanRule(n, text)
    /\ IF n < 10
       THEN pc' = RulePc[n + 1] /\ UNCHANGED clean
       ELSE pc' = "split" /\ clean' = <<CleanRule(n, text)>>
    /\ UNCHANGED <<pdf_exists, doc, ExtractVars, raw_text, SinkVars>>

\* doc = Document(); paragraphs = text.split('\n\n')
CreateSplit ==
    /\ pc = "split"
    /\ paragraphs' = Split(clean[1])
    /\ docx' = <<>>
    /\ pc' = "paras"
    /\ UNCHANGED <<pdf_exists, doc, ExtractVars, raw_text, text, clean, saves>>

\* for para in paragraphs: if para_text: doc.add_paragraph(para_text)
AddPara ==
    /\ pc = "paras"
    /\ paragraphs # <<>>
    /\ docx' = IF ParaText(Head(paragraphs)) # <<>>
               THEN Append(docx, ParaText(Head(paragraphs)))
               ELSE docx
    /\ paragraphs' = Tail(paragraphs)
    /\ UNCHANGED <<pc, pdf_exists, doc, ExtractVars, raw_text, text, clean, saves>>

\* doc.save(output_path)
Save ==
    /\ pc = "paras"
    /\ paragraphs = <<>>
    /\ saves' = saves + 1
    /\ pc' = "done"
    /\ UNCHANGED <<pdf_exists, doc, ExtractVars, raw_text, text, clean,
                   paragraphs, docx>>

-----------------------------------------------------------------------------
(* Specifications.                                                         *)

\* State shared by every start.
Fresh ==
    /\ items_read = 0
    /\ page_height = 0 /\ block_y_top = 0
    /\ line = <<>> /\ line_text = <<>> /\ block_line_texts = <<>>
    /\ full_text = <<>>
    /\ clean = <<>> /\ paragraphs = <<>> /\ docx = <<>> /\ saves = 0

\* A run of main from its first statement.
Init ==
    /\ pc = "main"
    /\ pdf_exists \in BOOLEAN
    /\ doc = "unopened"
    /\ raw_text = <<>> /\ text = <<>>
    /\ Fresh

Next ==
    \/ MainCheck
    \/ Open
    \/ OpenFail
    \/ \E h \in PageHeights : NextPage(h)
    \/ PageFail
    \/ EndPages
    \/ \E block \in Blocks : NextBlock(block)
    \/ EndBlocks
    \/ NextLine
    \/ EndLines
    \/ \E span \in Spans : NextSpan(span)
    \/ EndSpans
    \/ \E n \in 1..10 : CleanStep(n)
    \/ CreateSplit
    \/ AddPara
    \/ Save

Spec == Init /\ [][Next]_vars

\* Inputs of clean_text: up to MaxPieces pieces of one pool, put between a
\* prefix and a suffix of the pool.
Pools ==
    << \* paragraph structure: spaces, line breaks, a paragraph number
       [pre    |-> {<<>>, <<"a">>},
        pieces |-> {<<" ">>, <<NL>>, <<NL, NL>>, <<"\t">>, <<"(", "2", ")">>},
        post   |-> {<<>>, <<"b">>}],
       \* a date citation in parts, a fused digit, a superscript digit
       [pre    |-> {<<>>, <<"a">>},
        pieces |-> {<<"(", "2", "0", "1", "8", ".", "V">>, <<"1">>,
                    <<".", "2", "-", "a", ".", ")">>, <<" ">>, <<"^3">>},
        post   |-> {<<>>, <<"b">>}],
       \* "Lasd:" and amendment notes, with and without a period
       [pre    |-> {<<>>, <<"x", " ">>},
        pieces |-> {<<"L", "a'", "s", "d", ":">>,
                    <<"h", "a", "t", "a'", "l", "y", "o", "s", ":">>,
                    <<"H", "A", "T", "A'", "L", "Y", "O", "N", " ", "K", "I'", "V",
                      "U:", "L", " ", "H", "E", "L", "Y", "E", "Z", "T", "E", ":">>,
                    <<"a", ".", "b">>, <<NL>>},
        post   |-> {<<>>, <<NL, "y">>}],
       [pre    |-> {<<>>},
        pieces |-> {<<"M", "E", "G", "A'", "L", "L", "A", "P", "I'", "T", "O", "T",
                      "T", "A", ":">>,
                    <<"B", "e", "i", "k", "t", "a", "t", "t", "a", ":">>,
                    <<"m", "o'", "d", "o", "s", "i'", "t", "o", "t", "t", "a", ":">>,
                    <<"l", "a'", "s", "d", ":">>, <<"a", ".">>},
        post   |-> {<<>>, <<NL, "y">>}],
       \* words and digit runs
       [pre    |-> {<<>>},
        pieces |-> {<<"a">>, <<"E'">>, <<"1">>, <<"1", "2">>, <<" ">>, <<".">>},
        post   |-> {<<>>}] >>

\* The concatenations of at most n pieces.
RECURSIVE Concats(_, _)
Concats(pieces, n) ==
    IF n = 0 THEN {<<>>}
    ELSE LET S == Concats(pieces, n - 1)
         IN  S \cup {s \o p : s \in S, p \in pieces}

Inputs ==
    UNION { {pre \o m \o post :
                pre \in Pools[k].pre,
                m \in Concats(Pools[k].pieces, MaxPieces),
                post \in Pools[k].post} : k \in DOMAIN Pools }

\* main at the call clean_text(raw_text), for any extracted text.
InitClean ==
    /\ pc = "rule1"
    /\ pdf_exists = TRUE
    /\ doc = "closed"
    /\ \E x \in Inputs : raw_text = <<x>> /\ text = x
    /\ Fresh

NextClean ==
    \/ \E n \in 1..10 : CleanStep(n)
    \/ CreateSplit
    \/ AddPara
    \/ Save

SpecClean == InitClean /\ [][NextClean]_vars

-----------------------------------------------------------------------------
(* Properties of the block extractor, checked under Spec.                  *)

\* The lines and spans of the current block are being read.
InBlock == pc \in {"lines", "spans"}

\* The header and footer regions as the specification words them: the top
\* edge in [0, 0.10*h] or in (0.85*h, h].
ClosedRegion(y, h) ==
    \/ (0 <= y /\ y * 100 <= h * 10)
    \/ (y * 100 > h * 85 /\ y <= h)

\* The same regions with the header boundary left out: [0, 0.10*h) or (0.85*h, h].
OpenRegion(y, h) ==
    \/ (0 <= y /\ y * 100 < h * 10)
    \/ (y * 100 > h * 85 /\ y <= h)

\* C1 as stated: a block whose top edge lies in [0, 0.10*h] or (0.85*h, h]
\* is never read line by line and never adds text to full_text.
C1_ClosedRegionExcluded ==
    [][ /\ (InBlock' => ~ClosedRegion(block_y_top', page_height'))
        /\ (pc = "lines" /\ full_text' # full_text
               => ~ClosedRegion(block_y_top, page_height)) ]_vars

\* C1 amended: a block whose top edge lies in [0, 0.10*h) or (0.85*h, h]
\* is never read line by line and never adds text to full_text; a block
\* whose top edge is exactly 0.10*h is kept.
C1_OpenRegionExcluded ==
    [][ /\ (InBlock' => ~OpenRegion(block_y_top', page_height'))
        /\ (pc = "lines" /\ full_text' # full_text
               => ~OpenRegion(block_y_top, page_height)) ]_vars

\* A header block has just been fetched and skipped, after another block
\* of the page added its text.
C1_Witness ==
    /\ pc = "blocks"
    /\ OpenRegion(block_y_top, page_height)
    /\ block_y_top * 20 = page_height
    /\ full_text # <<>>

\* The text of all spans of the current line, skipped or not.
RECURSIVE RawText(_)
RawText(spans) ==
    IF Len(spans) = 0 THEN <<>> ELSE Head(spans).text \o RawText(Tail(spans))

\* What EndSpans must do with a line whose stripped text is st.
PageNumberRule(st, before, after) ==
    /\ (IsDigit(st) /\ Len(st) \in 1..3 => after = before)
    /\ (IsDigit(st) /\ Len(st) = 4 => after = Append(before, st))

\* C2 as stated: whatever the font sizes and flags of its spans, a line
\* whose stripped text is 1 to 3 digits is dropped and a line whose
\* stripped text is exactly 4 digits is appended to the block's lines.
C2_RawLineRule ==
    [][ pc = "spans" /\ pc' = "lines"
          => PageNumberRule(Strip(RawText(line)), block_line_texts, block_line_texts') ]_vars

\* C2 amended: the rule holds of the text of the spans that the superscript
\* filter has not skipped: stripped, 1 to 3 digits are dropped and exactly
\* 4 digits are appended to the block's lines.
C2_FilteredLineRule ==
    [][ pc = "spans" /\ pc' = "lines"
          => PageNumberRule(Strip(line_text), block_line_texts, block_line_texts') ]_vars

\* A four-digit line was kept and the two-digit line after it was dropped.
C2_Witness ==
    /\ pc = "lines"
    /\ Strip(line_text) = <<"1", "2">>
    /\ block_line_texts = << <<"1", "2", "1", "2">> >>

\* The skip condition as claim C3 words it.
DigitsAndSmallOrFlagged(span) ==
    /\ IsDigit(Strip(span.text))
    /\ (span.size < 8 \/ span.flags % 2 = 1 \/ span.size < 10)

\* C3: a span is skipped exactly when its stripped text is all digits and
\* (size < 8 or flag bit 0 set or size < 10); every other span is appended
\* to line_text unchanged.
C3_SpanSkippedIff ==
    [][ pc = "spans" /\ pc' = "spans"
          => LET span == line'[Len(line')]
             IN  /\ line' = Append(line, span)
                 /\ IF DigitsAndSmallOrFlagged(span)
                    THEN line_text' = line_text
                    ELSE line_text' = line_text \o span.text ]_vars

\* A digit span at size 7 was skipped and a letter span at size 7 was kept.
C3_Witness ==
    /\ pc = "spans"
    /\ Len(line) = 2
    /\ line[1] = [text |-> <<"1", "2">>, size |-> 7, flags |-> 0]
    /\ line[2] = [text |-> <<"a">>, size |-> 7, flags |-> 0]
    /\ line_text = <<"a">>

\* C7: the document is saved at most once, and only when the input file
\* exists, every page was read and the source closed, and both raw_text
\* and clean are bound; after a missing input or a failed source there is
\* no save.
C7_SaveOnlyAtEnd ==
    /\ saves <= 1
    /\ (saves = 1 => /\ pdf_exists
                     /\ doc = "closed"
                     /\ raw_text # <<>>
                     /\ clean # <<>>
                     /\ pc = "done")
    /\ (~pdf_exists \/ doc = "failed" \/ pc \in {"exit", "raised"} => saves = 0)
    /\ (~pdf_exists => doc = "unopened")

\* The source failed after a block had already added text: nothing saved.
C7_Witness ==
    /\ pc = "raised"
    /\ doc = "failed"
    /\ full_text # <<>>
    /\ saves = 0

-----------------------------------------------------------------------------
(* Properties of clean_text and create_word_document, checked under        *)
(* SpecClean.                                                              *)

NoTripleBreak(s) ==
    ~\E i \in 1..(Len(s) - 2) : s[i] = NL /\ s[i + 1] = NL /\ s[i + 2] = NL

\* No two double line breaks with nothing but whitespace between them.
NoBlankParagraph(s) ==
    ~\E i \in 1..(Len(s) - 1) : \E j \in (i + 2)..(Len(s) - 1) :
        /\ s[i] = NL /\ s[i + 1] = NL
        /\ s[j] = NL /\ s[j + 1] = NL
        /\ \A k \in (i + 2)..(j - 1) : s[k] \in Whitespace

NoOuterWhitespace(s) ==
    Len(s) = 0 \/ (s[1] \notin Whitespace /\ s[Len(s)] \notin Whitespace)

NoSuperscriptDigit(s) ==
    \A k \in 1..Len(s) : s[k] \notin Range(superscript_digits)

NoDoubleSpace(s) ==
    ~\E i \in 1..(Len(s) - 1) : s[i] = " " /\ s[i + 1] = " "

NoDateCitation(s) ==
    \A i \in 1..Len(s) : DateCiteMatch(s, i) = 0

\* C4: the result of clean_text has no run of three line breaks, no blank
\* paragraph and no leading or trailing whitespace.
C4_CleanedShape ==
    clean # <<>> =>
        /\ NoTripleBreak(clean[1])
        /\ NoBlankParagraph(clean[1])
        /\ NoOuterWhitespace(clean[1])

\* "a", a blank paragraph and "b" came out as two paragraphs.
C4_Witness ==
    /\ clean = << <<"a", NL, NL, "b">> >>
    /\ raw_text = << <<"a", NL, NL, " ", NL, NL, "b">> >>

\* C5 as stated: on the result of clean_text, rules 1, 4, 7, 8 and 10 find
\* nothing left to change.
C5_FiveRulesSettled ==
    clean # <<>> =>
        /\ NoSuperscriptDigit(clean[1]) /\ CleanRule(1, clean[1]) = clean[1]
        /\ NoDateCitation(clean[1])     /\ CleanRule(4, clean[1]) = clean[1]
        /\ NoDoubleSpace(clean[1])      /\ CleanRule(7, clean[1]) = clean[1]
        /\ NoTripleBreak(clean[1])      /\ CleanRule(8, clean[1]) = clean[1]
        /\ NoOuterWhitespace(clean[1])  /\ CleanRule(10, clean[1]) = clean[1]

\* C5 amended: on the result of clean_text, rules 1, 7, 8 and 10 find
\* nothing left to change (rule 4 may: rule 5 runs after it and can
\* complete a date citation by deleting digits fused to its numeral).
C5_FourRulesSettled ==
    clean # <<>> =>
        /\ NoSuperscriptDigit(clean[1]) /\ CleanRule(1, clean[1]) = clean[1]
        /\ NoDoubleSpace(clean[1])      /\ CleanRule(7, clean[1]) = clean[1]
        /\ NoTripleBreak(clean[1])      /\ CleanRule(8, clean[1]) = clean[1]
        /\ NoOuterWhitespace(clean[1])  /\ CleanRule(10, clean[1]) = clean[1]

\* A superscript digit between two spaces was removed and the two spaces
\* became one.
C5_Witness ==
    /\ raw_text = << <<"a", " ", "^3", " ", "b">> >>
    /\ clean = << <<"a", " ", "b">> >>

\* The number of non-empty segments among segs.
RECURSIVE NonEmptyCount(_)
NonEmptyCount(segs) ==
    IF Len(segs) = 0 THEN 0
    ELSE (IF Head(segs) # <<>> THEN 1 ELSE 0) + NonEmptyCount(Tail(segs))

\* C6: once every paragraph is added, the document holds as many
\* paragraphs as clean has non-empty segments between double line breaks.
C6_ParagraphCount ==
    pc = "done" => Len(docx) = NonEmptyCount(Split(clean[1]))

\* Three segments of the raw text, one of them blank, gave two paragraphs.
C6_Witness ==
    /\ pc = "done"
    /\ Len(docx) = 2
    /\ Len(Split(raw_text[1])) = 3

\* Rule 6 as claim C8 words it: only a "(N)" that starts its line is merged.
RECURSIVE MergeStandalone(_, _)
MergeStandalone(s, i) ==
    IF i > Len(s) THEN <<>>
    ELSE LET e == IF i = 1 \/ s[i - 1] = NL THEN ParaNumberMatch(s, i) ELSE 0
         IN  IF e > i
             THEN ParaNumberRepl(s, i) \o MergeStandalone(s, e)
             ELSE <<s[i]>> \o MergeStandalone(s, i + 1)

\* C8: in a text that ends with a paragraph's last character, rule 6
\* merges a "(N)" alone on its line with the next paragraph, and a "(N)"
\* that ends a line with other text before it keeps its paragraph break.
C8_OnlyStandaloneMerged ==
    [][ pc = "rule6" /\ Len(text) > 0 /\ text[Len(text)] \notin Whitespace
          => text' = MergeStandalone(text, 1) ]_vars

\* The positions of s not in D, in order.
RECURSIVE KeepOutside(_, _, _)
KeepOutside(s, k, D) ==
    IF k > Len(s) THEN <<>>
    ELSE (IF k \in D THEN <<>> ELSE <<s[k]>>) \o KeepOutside(s, k + 1, D)

\* The positions of the digit runs of 1 to 3 digits that follow a letter of
\* the class and are followed by whitespace, closing punctuation or the end.
FusedRuns(s, letters) ==
    {k \in 1..Len(s) :
        /\ s[k] \in DecimalDigits
        /\ LET a == CHOOSE a \in 1..k :
                        /\ \A m \in a..k : s[m] \in DecimalDigits
                        /\ (a = 1 \/ s[a - 1] \notin DecimalDigits)
               b == CHOOSE b \in k..Len(s) :
                        /\ \A m \in k..b : s[m] \in DecimalDigits
                        /\ (b = Len(s) \/ s[b + 1] \notin DecimalDigits)
           IN  /\ b - a + 1 <= 3
               /\ a > 1 /\ s[a - 1] \in letters
               /\ (b = Len(s) \/ s[b + 1] \in Whitespace \cup ClosingPunct)}

\* C9 as stated: rule 5 deletes exactly the runs of 1 to 3 digits that
\* follow a lowercase letter and precede whitespace, closing punctuation
\* or the end of the text.
C9_AfterLowercaseOnly ==
    [][ pc = "rule5"
          => text' = KeepOutside(text, 1, FusedRuns(text, Range(LowerLetters))) ]_vars

\* C9 amended: rule 5 deletes exactly the runs of 1 to 3 digits that follow
\* a letter of either case and precede whitespace, closing punctuation or
\* the end of the text.
C9_AfterAnyLetter ==
    [][ pc = "rule5"
          => text' = KeepOutside(text, 1,
                        FusedRuns(text, Range(LowerLetters) \cup Range(UpperLetters))) ]_vars

\* Two digits fused to a capital letter were deleted by rule 5.
C9_Witness ==
    /\ pc = "rule6"
    /\ raw_text = << <<"E'", "1", "2", ".">> >>
    /\ text = <<"E'", ".">>

\* A marker of rule 2 or 3 starts at index m, in any letter case.
NoteAt(s, m) ==
    \E lit \in {LasdLit} \cup Range(AmendmentLits) : MatchLitI(s, m, lit)

\* The positions from a marker to the end of its line, line break excluded.
NotePositions(s) ==
    {k \in 1..Len(s) :
        \E m \in 1..k : NoteAt(s, m) /\ \A j \in m..k : s[j] # NL}

\* C10: after rules 2 and 3, every line has lost what ran from its first
\* marker to its end, periods or not, and nothing else has changed.
C10_NotesDeletedToLineEnd ==
    pc = "rule4" =>
        LET before == CleanRule(1, raw_text[1])
        IN  text = KeepOutside(before, 1, NotePositions(before))

\* A "Lasd:" note with a period in it was cut out of the middle line.
C10_Witness ==
    /\ pc = "rule4"
    /\ raw_text = << <<"x", " ", "L", "a'", "s", "d", ":", "a", ".", "b", NL, "y">> >>
    /\ text = <<"x", " ", NL, "y">>

====
